---- MODULE Spec2Model ----
(***************************************************************************)
(* Model of src/tool.py (class Tools of the "Live Currency Rate" plugin):  *)
(* the rate cache and fetcher, the conversion and listing tools, and the   *)
(* update notifier with its persisted state file.                          *)
(*                                                                         *)
(* Text is modelled as sequences of character codes, so that upper(),      *)
(* lower(), strip() and sorted() are computed as Python computes them.     *)
(* Amounts and rates are exact rationals <<numerator, denominator>>.       *)
(* time.time() is read in seconds, datetime.now() in hours since           *)
(* 2024-01-01 (the default last_check).                                    *)
(***************************************************************************)
EXTENDS Integers, Sequences, FiniteSets, TLC

VARIABLES
  valves,        \* self.valves
  cache,         \* self.cache
  update_state,  \* self.update_state
  constructed,   \* whether __init__ returned (FALSE: it raised)
  data_file,     \* the content of DATA_FILE
  time_time,     \* time.time(), seconds
  datetime_now,  \* datetime.now(), hours since 2024-01-01
  emitted,       \* the messages event emitters have been given so far
  last_ok,       \* history: the last fetch that succeeded (time, table)
  last_request,  \* history: the time of the last release request
  last_call,     \* history: the last call of a tool or of _fetch_rates
  last_notify    \* history: the last call of _check_and_notify_updates

vars == <<valves, cache, update_state, constructed, data_file, time_time,
          datetime_now, emitted, last_ok, last_request, last_call, last_notify>>

-----------------------------------------------------------------------------
(* Python values                                                           *)

None == [kind |-> "None", s |-> <<>>]
Str(s) == [kind |-> "str", s |-> s]

\* truthiness of an Optional[str]: None and "" are falsy
Truthy(x) == x.kind = "str" /\ Len(x.s) > 0

IsSpace(c) == c \in {9, 10, 11, 12, 13, 32}
UpperChar(c) == IF c \in 97..122 THEN c - 32 ELSE c
LowerChar(c) == IF c \in 65..90 THEN c + 32 ELSE c

\* str.upper()
Upper(s) == [i \in 1..Len(s) |-> UpperChar(s[i])]
\* str.lower()
Lower(s) == [i \in 1..Len(s) |-> LowerChar(s[i])]

\* str.strip(): drop leading and trailing whitespace
Strip(s) ==
  LET keep == {i \in 1..Len(s) : ~IsSpace(s[i])}
  IN  IF keep = {} THEN <<>>
      ELSE LET lo == CHOOSE i \in keep : \A j \in keep : i <= j
               hi == CHOOSE i \in keep : \A j \in keep : j <= i
           IN  SubSeq(s, lo, hi)

\* s < t in Python's ordering of strings (by code point, shorter prefix first)
RECURSIVE StrLess(_, _)
StrLess(s, t) ==
  IF Len(t) = 0 THEN FALSE
  ELSE IF Len(s) = 0 THEN TRUE
  ELSE IF Head(s) # Head(t) THEN Head(s) < Head(t)
  ELSE StrLess(Tail(s), Tail(t))

\* sorted(list of str)
RECURSIVE Insert(_, _)
Insert(x, sorted) ==
  IF Len(sorted) = 0 THEN <<x>>
  ELSE IF StrLess(x, Head(sorted)) THEN <<x>> \o sorted
  ELSE <<Head(sorted)>> \o Insert(x, Tail(sorted))

RECURSIVE Sorted(_)
Sorted(list) ==
  IF Len(list) = 0 THEN <<>>
  ELSE Insert(list[Len(list)], Sorted(SubSeq(list, 1, Len(list) - 1)))

\* list[:n]
Take(list, n) == SubSeq(list, 1, IF Len(list) < n THEN Len(list) ELSE n)

Elems(list) == {list[i] : i \in 1..Len(list)}

\* [c for c in list if keep(c)]
RECURSIVE Filter(_, _)
Filter(list, S) ==
  IF Len(list) = 0 THEN <<>>
  ELSE (IF Head(list) \in S THEN <<Head(list)>> ELSE <<>>) \o Filter(Tail(list), S)

-----------------------------------------------------------------------------
(* Numbers: exact rationals                                                *)

RECURSIVE Gcd(_, _)
Gcd(a, b) == IF b = 0 THEN a ELSE Gcd(b, a % b)

Abs(n) == IF n < 0 THEN -n ELSE n

\* n/d in lowest terms with a positive denominator (d # 0)
Rat(n, d) ==
  LET g == Gcd(Abs(n), Abs(d))
      sgn == IF d < 0 THEN -1 ELSE 1
  IN  <<sgn * (n \div g), sgn * (d \div g)>>

Zero == <<0, 1>>

\* the outcome of an expression: a value, or an exception raised
Val(v) == [ok |-> TRUE, v |-> v, exc |-> ""]
Exc(e) == [ok |-> FALSE, v |-> Zero, exc |-> e]

\* a * b
Mul(a, b) == Val(Rat(a[1] * b[1], a[2] * b[2]))
\* a / b on floats: dividing by zero raises ZeroDivisionError
Div(a, b) ==
  IF b[1] = 0 THEN Exc("ZeroDivisionError")
  ELSE Val(Rat(a[1] * b[2], a[2] * b[1]))

-----------------------------------------------------------------------------
(* Currency codes                                                          *)

USD == <<85, 83, 68>>
EUR == <<69, 85, 82>>
GBP == <<71, 66, 80>>
BTC == <<66, 84, 67>>
ETH == <<69, 84, 72>>
SOL == <<83, 79, 76>>
ZZZ == <<90, 90, 90>>

crypto_currencies == {BTC, ETH, SOL}

-----------------------------------------------------------------------------
(* Rate tables: the JSON documents the rate endpoint serves                *)

BigTableSize == 22             \* number of codes in the largest table served
MaxTime == 360                 \* time.time() stops advancing here
MaxHour == 72                  \* datetime.now() stops advancing here

CACHE_DURATION == 180          \* Valves.CACHE_DURATION (seconds)
HintLimit == 20                \* sorted(rates.keys())[:20]
CheckIntervalHours == 24       \* timedelta(hours=24)

NoData == [kind |-> "None", has_base |-> FALSE, base |-> <<>>, order |-> <<>>,
           val |-> <<>>, updated |-> ""]

\* {"base": "USD", "rates": {"EUR": 0.5, "GBP": 0.25, "BTC": 4, "ETH": 2},
\*  "updated": "<ISO-8601>"}
TableA == [kind |-> "dict", has_base |-> TRUE, base |-> USD,
           order |-> <<EUR, GBP, BTC, ETH>>,
           val |-> <<Rat(1, 2), Rat(1, 4), Rat(4, 1), Rat(2, 1)>>,
           updated |-> "iso"]

\* {"rates": {"EUR": 3, "SOL": 5, "BTC": 8}, "updated": "not a date"}: no "base" key
TableB == [kind |-> "dict", has_base |-> FALSE, base |-> <<>>,
           order |-> <<EUR, SOL, BTC>>,
           val |-> <<Rat(3, 1), Rat(5, 1), Rat(8, 1)>>,
           updated |-> "bad"]

\* {"base": "USD", "rates": {"Q<letter>": i, ...}}: BigTableSize fiat codes, served
\* in reverse alphabetical order, no "updated" key
TableBig == [kind |-> "dict", has_base |-> TRUE, base |-> USD,
             order |-> [i \in 1..BigTableSize |-> <<81, 65 + BigTableSize - i>>],
             val |-> [i \in 1..BigTableSize |-> Rat(i, 1)],
             updated |-> ""]

Tables == {TableA, TableB, TableBig}

\* the outcomes of requests.get(API_URL) / raise_for_status() / response.json()
Responses ==
  [kind : {"ok"}, data : Tables]
    \cup [kind : {"ConnectionError", "HTTPError", "JSONDecodeError"}, data : {NoData}]

\* no request is made
NotAsked == [kind |-> "not_asked", data |-> NoData]

\* data.get("rates", {}).keys(), in the document's order
RateKeys(data) == data.order
\* code in rates
InRates(code, data) == code \in Elems(data.order)
\* rates[code]: KeyError when the code is no key
RateOf(code, data) ==
  IF InRates(code, data)
  THEN Val(data.val[CHOOSE i \in 1..Len(data.order) : data.order[i] = code])
  ELSE Exc("KeyError")
\* data.get("base", "USD")
BaseOf(data) == IF data.has_base THEN data.base ELSE USD

-----------------------------------------------------------------------------
(* _fetch_rates                                                            *)

\* the cache is still valid at current_time
CacheValidStale(c, current_time) ==
  c.data # NoData /\ current_time - c.timestamp <= valves.CACHE_DURATION

CacheValid(c, current_time) ==
  c.data # NoData /\ current_time - c.timestamp < valves.CACHE_DURATION

\* the except branch: the fetch failed with exception e
FetchFailedDropsCache(c, e) ==
  [cache |-> [data |-> NoData, timestamp |-> c.timestamp], raised |-> TRUE,
   exc |-> e, data |-> NoData, net |-> TRUE]

FetchFailed(c, e) ==
  IF c.data # NoData
  THEN [cache |-> c, raised |-> FALSE, exc |-> "", data |-> c.data, net |-> TRUE]
  ELSE [cache |-> c, raised |-> TRUE, exc |-> e, data |-> NoData, net |-> TRUE]

\* _fetch_rates() at current_time, the endpoint answering resp if it is asked:
\* the new cache, the table returned or the exception raised, and whether a
\* request went out
FetchRates(c, current_time, resp) ==
  IF CacheValid(c, current_time)
  THEN [cache |-> c, raised |-> FALSE, exc |-> "", data |-> c.data, net |-> FALSE]
  ELSE IF resp.kind = "ok"
  THEN [cache |-> [data |-> resp.data, timestamp |-> current_time],
        raised |-> FALSE, exc |-> "", data |-> resp.data, net |-> TRUE]
  ELSE FetchFailed(c, resp.kind)

-----------------------------------------------------------------------------
(* The tools' responses.  A response text is represented by its leading     *)
(* marker glyph (cross_mark, exchange, money_bag) and the values rendered   *)
(* into it; kind "raise" is an exception leaving the function instead of a  *)
(* text.                                                                    *)

Blank == [kind |-> "", marker |-> "", exc |-> "", code |-> <<>>, available |-> <<>>,
          from |-> <<>>, to |-> <<>>, amount |-> Zero, result |-> Zero, rate |-> Zero,
          update_time |-> FALSE, title |-> "", count |-> 0,
          crypto_list |-> <<>>, fiat_rows |-> <<>>]

Raise(e) == [Blank EXCEPT !.kind = "raise", !.exc = e]

\* ", ".join(sorted(rates.keys())[:20])
Available(data) == Take(Sorted(RateKeys(data)), HintLimit)

\* the text "(cross mark) Currency '{code}' not found. Available currencies include: {available}..."
NotFound(code, data) ==
  [Blank EXCEPT !.kind = "not_found", !.marker = "cross_mark", !.code = code,
                !.available = Available(data)]

\* upper().strip() of a currency code argument
NormalizeNoUpper(s) == Strip(s)

Normalize(s) == Strip(Upper(s))

\* amount * rates[code], amount / rates[code]
MulRate(a, code, data) ==
  LET r == RateOf(code, data) IN IF r.ok THEN Mul(a, r.v) ELSE r
DivRate(a, code, data) ==
  LET r == RateOf(code, data) IN IF r.ok THEN Div(a, r.v) ELSE r

\* the three-way conversion formula: the result, or the exception raised
Calculate(data, from, to, amount) ==
  LET base == BaseOf(data)
      from_is_crypto == from \in crypto_currencies
      to_is_crypto == to \in crypto_currencies
  IN  IF from = base
      THEN IF to_is_crypto THEN DivRate(amount, to, data)
                           ELSE MulRate(amount, to, data)
      ELSE IF to = base
      THEN IF from_is_crypto THEN MulRate(amount, from, data)
                             ELSE DivRate(amount, from, data)
      ELSE LET usd_value == IF from_is_crypto THEN MulRate(amount, from, data)
                                              ELSE DivRate(amount, from, data)
           IN  IF ~usd_value.ok THEN usd_value
               ELSE IF to_is_crypto THEN DivRate(usd_value.v, to, data)
                                    ELSE MulRate(usd_value.v, to, data)

\* the "Updated:" line is present when data["updated"] is non-empty and parses
UpdateTimeShown(data) == data.updated = "iso"

\* the try block of convert_currency, f being what _fetch_rates gave
ConvertBody(f, from_currency, to_currency, amount) ==
  IF f.raised THEN Raise("Exception")
  ELSE IF from_currency.kind # "str" THEN Raise("AttributeError")
  ELSE
    LET data == f.data
        base == BaseOf(data)
        from == Normalize(from_currency.s)
        to == IF Truthy(to_currency) THEN Normalize(to_currency.s) ELSE base
    IN  IF ~InRates(from, data) /\ from # base THEN NotFound(from, data)
        ELSE IF ~InRates(to, data) /\ to # base THEN NotFound(to, data)
        ELSE
          LET result == Calculate(data, from, to, amount)
          IN  IF ~result.ok THEN Raise(result.exc)
              ELSE LET rate == Div(result.v, amount)
                   IN  IF ~rate.ok THEN Raise(rate.exc)
                       ELSE [Blank EXCEPT !.kind = "conversion", !.marker = "exchange",
                                          !.from = from, !.to = to, !.amount = amount,
                                          !.result = result.v, !.rate = rate.v,
                                          !.update_time = UpdateTimeShown(data)]

\* except Exception as e: return the text "(cross mark) Error: {str(e)}"
CatchOnlyKeyError(out) ==
  IF out.kind = "raise" /\ out.exc = "KeyError"
  THEN [Blank EXCEPT !.kind = "error", !.marker = "cross_mark", !.exc = out.exc]
  ELSE out

CatchAll(out) ==
  IF out.kind = "raise"
  THEN [Blank EXCEPT !.kind = "error", !.marker = "cross_mark", !.exc = out.exc]
  ELSE out

\* "crypto", "fiat"
crypto_word == <<99, 114, 121, 112, 116, 111>>
fiat_word == <<102, 105, 97, 116>>

\* the rows of the fiat listing: three codes a row, each row sorted
FiatRows(fiat_list) ==
  LET n == Len(fiat_list)
  IN  [r \in 1..((n + 2) \div 3) |->
         Sorted(SubSeq(fiat_list, 3 * (r - 1) + 1, IF 3 * r < n THEN 3 * r ELSE n))]

\* the try block of list_currencies
ListBody(f, filter_type) ==
  IF f.raised THEN Raise("Exception")
  ELSE
    LET data == f.data
        all_currencies == <<BaseOf(data)>> \o RateKeys(data)
        all == Elems(all_currencies)
        ft == IF Truthy(filter_type) THEN Lower(filter_type.s) ELSE <<>>
        listing(currencies, title) ==
          [Blank EXCEPT !.kind = "list", !.marker = "money_bag", !.title = title,
                        !.count = Len(currencies),
                        !.crypto_list = Sorted(Filter(currencies, crypto_currencies)),
                        !.fiat_rows =
                           FiatRows(Filter(currencies, all \ crypto_currencies))]
    IN  IF ~Truthy(filter_type) THEN listing(all_currencies, "All Currencies")
        ELSE IF ft = crypto_word
        THEN listing(Filter(all_currencies, crypto_currencies), "Cryptocurrencies")
        ELSE IF ft = fiat_word
        THEN listing(Filter(all_currencies, all \ crypto_currencies), "Fiat Currencies")
        ELSE [Blank EXCEPT !.kind = "invalid_filter", !.marker = "cross_mark"]

-----------------------------------------------------------------------------
(* Versions                                                                *)

\* "0.1.0", "0.2.0", "v0.2.0", "beta"
v0_1_0 == <<48, 46, 49, 46, 48>>
v0_2_0 == <<48, 46, 50, 46, 48>>
tag_v0_2_0 == <<118, 48, 46, 50, 46, 48>>
beta == <<98, 101, 116, 97>>

CURRENT_VERSION == v0_1_0

\* str.lstrip("v")
RECURSIVE LStripV(_)
LStripV(s) == IF Len(s) > 0 /\ Head(s) = 118 THEN LStripV(Tail(s)) ELSE s

\* s.split(".")
RECURSIVE SplitDots(_)
SplitDots(s) ==
  IF \A i \in 1..Len(s) : s[i] # 46 THEN <<s>>
  ELSE LET d == CHOOSE i \in 1..Len(s) : s[i] = 46 /\ \A j \in 1..(i - 1) : s[j] # 46
       IN  <<SubSeq(s, 1, d - 1)>> \o SplitDots(SubSeq(s, d + 1, Len(s)))

IsNumber(seg) == Len(seg) > 0 /\ \A i \in 1..Len(seg) : seg[i] \in 48..57

RECURSIVE ToInt(_)
ToInt(seg) ==
  IF Len(seg) = 0 THEN 0 ELSE 10 * ToInt(SubSeq(seg, 1, Len(seg) - 1)) + (seg[Len(seg)] - 48)

\* version.parse(s), for release versions N(.N)*: the tuple of numbers; any other
\* text raises InvalidVersion (a ValueError)
ParseVersion(s) ==
  LET segs == SplitDots(s)
  IN  IF \A i \in 1..Len(segs) : IsNumber(segs[i])
      THEN [ok |-> TRUE, release |-> [i \in 1..Len(segs) |-> ToInt(segs[i])]]
      ELSE [ok |-> FALSE, release |-> <<>>]

\* a > b on release tuples, the shorter one padded with zeros
RECURSIVE ReleaseGreater(_, _)
ReleaseGreater(a, b) ==
  IF Len(a) = 0 /\ Len(b) = 0 THEN FALSE
  ELSE LET x == IF Len(a) = 0 THEN 0 ELSE Head(a)
           y == IF Len(b) = 0 THEN 0 ELSE Head(b)
       IN  IF x # y THEN x > y
           ELSE ReleaseGreater(IF Len(a) = 0 THEN a ELSE Tail(a),
                               IF Len(b) = 0 THEN b ELSE Tail(b))

-----------------------------------------------------------------------------
(* The update state and its file                                           *)

StateKeys == {"last_check", "latest_version", "latest_url", "has_shown_notification"}

\* the dict returned when the file cannot be loaded: last_check = 2024-01-01
DefaultState ==
  [keys |-> StateKeys, last_check |-> 0, latest_version |-> None,
   latest_url |-> None, has_shown_notification |-> FALSE]

\* datetime.isoformat(): the text of a time; other JSON values a file may hold
IsoFormat(h) == [kind |-> "iso", hour |-> h]
NotADate == [kind |-> "text", hour |-> 0]

url == <<117>>

\* DATA_FILE: absent, cut short in the middle of a write, or a JSON document
FileAbsent ==
  [kind |-> "absent", keys |-> {}, last_check |-> NotADate, latest_version |-> None,
   latest_url |-> None, has_shown_notification |-> FALSE]
FileTruncated == [FileAbsent EXCEPT !.kind = "truncated"]
\* the document []
FileList == [FileAbsent EXCEPT !.kind = "json_list"]
\* the document {}
FileEmptyObject == [FileAbsent EXCEPT !.kind = "json_object"]
\* a state document whose last_check is no ISO date
FileBadDate == [FileAbsent EXCEPT !.kind = "json_object", !.keys = StateKeys]

\* json.dump of the state with last_check as its isoformat() text
Document(state) ==
  [kind |-> "json_object", keys |-> state.keys, last_check |-> IsoFormat(state.last_check),
   latest_version |-> state.latest_version, latest_url |-> state.latest_url,
   has_shown_notification |-> state.has_shown_notification]

\* _load_state(): the dict returned, or the exception that leaves it
LoadState(file) ==
  IF file.kind \in {"absent", "truncated"}
  THEN [raised |-> FALSE, exc |-> "", state |-> DefaultState]
  ELSE IF file.kind = "json_list"
  THEN [raised |-> TRUE, exc |-> "AttributeError", state |-> DefaultState]
  ELSE LET text == IF "last_check" \in file.keys THEN file.last_check
                   ELSE IsoFormat(0)
       IN  IF text.kind # "iso"
           THEN [raised |-> FALSE, exc |-> "", state |-> DefaultState]
           ELSE [raised |-> FALSE, exc |-> "",
                 state |-> [keys |-> file.keys \cup {"last_check"},
                            last_check |-> text.hour,
                            latest_version |-> file.latest_version,
                            latest_url |-> file.latest_url,
                            has_shown_notification |-> file.has_shown_notification]]

\* _save_state(): the file after it (the write is taken to succeed)
SaveState(state) == Document(state)

-----------------------------------------------------------------------------
(* The update notifier                                                     *)

\* the __user__ argument: a dict with a role, or something that is no dict
Users == {[is_dict |-> TRUE, role |-> "admin"], [is_dict |-> TRUE, role |-> "user"],
          [is_dict |-> FALSE, role |-> ""]}

\* the outcomes of requests.get(releases/latest): no response, a status other than
\* 200, a body that is no JSON, or 200 with a release document whose tag_name is a
\* text, is absent, or is null
ReleaseResponses ==
  [kind : {"RequestException", "status_404", "JSONDecodeError", "no_tag", "null_tag"},
   tag_name : {<<>>}]
    \cup [kind : {"release"}, tag_name : {tag_v0_2_0, v0_1_0, beta}]

\* _should_check_for_updates(user) at time now
ShouldCheckForUpdates(state, enable, user, now) ==
  /\ enable
  /\ user.is_dict /\ user.role = "admin"
  /\ now - state.last_check >= CheckIntervalHours

\* the try block of _check_github_release: the state after it and the exception,
\* if any, that no except clause catches
ReleaseTry(state, resp) ==
  IF resp.kind \in {"RequestException", "JSONDecodeError", "status_404"}
  THEN [state |-> state, exc |-> ""]
  ELSE IF resp.kind = "null_tag"
  THEN [state |-> state, exc |-> "AttributeError"]
  ELSE IF "latest_version" \notin state.keys
  THEN [state |-> state, exc |-> ""]
  ELSE
    LET new_version == Str(LStripV(resp.tag_name))
        version_changed == state.latest_version # new_version
    IN  [state |-> [state EXCEPT
                      !.keys = @ \cup {"latest_version", "latest_url"}
                                 \cup (IF version_changed THEN {"has_shown_notification"}
                                       ELSE {}),
                      !.latest_version = new_version,
                      !.latest_url = Str(url),
                      !.has_shown_notification =
                         IF version_changed THEN FALSE ELSE @],
         exc |-> ""]

\* the finally block: last_check = now, then _save_state()
ReleaseFinallyOnSuccess(t, now) ==
  IF t.exc = ""
  THEN [state |-> [t.state EXCEPT !.last_check = now,
                                  !.keys = @ \cup {"last_check"}],
        exc |-> t.exc]
  ELSE t

ReleaseFinally(t, now) ==
  [state |-> [t.state EXCEPT !.last_check = now, !.keys = @ \cup {"last_check"}],
   exc |-> t.exc]

\* _check_github_release() at time now, the release endpoint answering resp
CheckGithubRelease(state, resp, now) == ReleaseFinally(ReleaseTry(state, resp), now)

\* _get_update_notification(): "" (kind "empty"), a message, or an exception.
\* The message is an f-string that reads the bare name EXT_TITLE, which is
\* bound in the class body only: evaluating it raises NameError, which the
\* except (ValueError, TypeError) clause does not catch.
GetUpdateNotification(state) ==
  IF "latest_version" \notin state.keys THEN [kind |-> "raise", exc |-> "KeyError"]
  ELSE IF ~Truthy(state.latest_version) THEN [kind |-> "empty", exc |-> ""]
  ELSE LET latest == ParseVersion(state.latest_version.s)
           current == ParseVersion(CURRENT_VERSION)
       IN  IF ~latest.ok \/ ~current.ok THEN [kind |-> "empty", exc |-> ""]
           ELSE IF ReleaseGreater(latest.release, current.release)
           THEN [kind |-> "raise", exc |-> "NameError"]
           ELSE [kind |-> "empty", exc |-> ""]

\* _check_and_notify_updates(user, event_emitter) at time now: the state and the
\* file after it, whether the release endpoint was asked, the number of messages
\* given to event_emitter, and the exception that leaves it, if any
CheckAndNotify(state, file, enable, user, has_emitter, resp, now) ==
  LET check == ShouldCheckForUpdates(state, enable, user, now)
      c == IF check THEN CheckGithubRelease(state, resp, now)
           ELSE [state |-> state, exc |-> ""]
      file1 == IF check THEN SaveState(c.state) ELSE file
      done(st, fl, n, e) ==
        [state |-> st, file |-> fl, requested |-> check, messages |-> n, exc |-> e]
  IN  IF c.exc # "" THEN done(c.state, file1, 0, c.exc)
      ELSE IF "has_shown_notification" \notin c.state.keys
      THEN done(c.state, file1, 0, "KeyError")
      ELSE IF c.state.has_shown_notification \/ ~has_emitter
      THEN done(c.state, file1, 0, "")
      ELSE
        LET notification == GetUpdateNotification(c.state)
        IN  IF notification.kind = "raise" THEN done(c.state, file1, 0, notification.exc)
            ELSE IF notification.kind = "empty" THEN done(c.state, file1, 0, "")
            ELSE LET shown == [c.state EXCEPT !.has_shown_notification = TRUE]
                 IN  done(shown, SaveState(shown), 1, "")

-----------------------------------------------------------------------------
(* State                                                                   *)

StartHour == 24                \* datetime.now() when the model starts

EmptyCache == [data |-> NoData, timestamp |-> 0]

NoOk == [at |-> -1, data |-> NoData]

NoCall ==
  [op |-> "none", from_currency |-> None, to_currency |-> None, amount |-> Zero,
   filter_type |-> None, at |-> 0, net |-> FALSE, fetched |-> FALSE,
   fetch_raised |-> FALSE, data |-> NoData, prev_ok |-> NoOk,
   prev_cache |-> EmptyCache, notify_due |-> FALSE,
   body |-> Blank, ret |-> Blank]

NoNotify ==
  [op |-> "none", at |-> 0, user |-> [is_dict |-> FALSE, role |-> ""],
   has_emitter |-> FALSE, enabled |-> FALSE, requested |-> FALSE,
   prev_request |-> -1, prev_last_check |-> 0, notify_due |-> FALSE,
   messages |-> 0, exc |-> ""]

\* the versions a state file left by an earlier run may hold
StoredVersions == {None, Str(v0_1_0), Str(v0_2_0), Str(beta)}

\* the state documents an earlier run may have saved
SavedDocuments ==
  {Document(st) : st \in [keys : {StateKeys}, last_check : {0, StartHour},
                          latest_version : StoredVersions, latest_url : {Str(url)},
                          has_shown_notification : BOOLEAN]}

Files == {FileAbsent, FileTruncated, FileList, FileEmptyObject, FileBadDate}
           \cup SavedDocuments

\* Valves(): the defaults, update checks switched on or off by the host
Valves(enable) == [ENABLE_UPDATE_CHECK |-> enable, CACHE_DURATION |-> CACHE_DURATION]

\* __init__ with DATA_FILE holding file, but for the cache
Construct(file, enable) ==
  LET l == LoadState(file)
  IN  /\ valves = Valves(enable)
      /\ update_state = l.state
      /\ constructed = ~l.raised
      /\ data_file = file

InitHistory ==
  /\ emitted = 0
  /\ last_ok = NoOk
  /\ last_request = -1
  /\ last_call = NoCall
  /\ last_notify = NoNotify

Init ==
  /\ \E file \in Files, enable \in BOOLEAN : Construct(file, enable)
  /\ cache = EmptyCache
  /\ time_time = 0
  /\ datetime_now = StartHour
  /\ InitHistory

-----------------------------------------------------------------------------
(* Arguments the host passes                                               *)

\* "usd", " eur ", "btc ", "", "FIAT", "Crypto ", "xyz"
usd_lower == <<117, 115, 100>>
eur_padded == <<32, 101, 117, 114, 32>>
btc_lower == <<98, 116, 99, 32>>
empty == <<>>
fiat_upper == <<70, 73, 65, 84>>
crypto_padded == <<67, 114, 121, 112, 116, 111, 32>>
xyz == <<120, 121, 122>>

FromInputs == {None, Str(usd_lower), Str(eur_padded), Str(BTC), Str(ZZZ)}
ToInputs == {None, Str(empty), Str(EUR), Str(btc_lower), Str(ZZZ)}
Amounts == {Zero, Rat(3, 1)}
CryptoInputs == {Str(BTC), Str(ETH), Str(ZZZ)}
CurrencyInputs == {Str(USD), Str(EUR)}
FilterInputs == {None, Str(empty), Str(crypto_word), Str(fiat_upper),
                 Str(crypto_padded), Str(xyz)}

\* has_shown_notification is false and latest_version is a version strictly
\* newer than CURRENT_VERSION
NotifyDue(state) ==
  /\ {"latest_version", "has_shown_notification"} \subseteq state.keys
  /\ ~state.has_shown_notification
  /\ Truthy(state.latest_version)
  /\ ParseVersion(state.latest_version.s).ok
  /\ ReleaseGreater(ParseVersion(state.latest_version.s).release,
                    ParseVersion(CURRENT_VERSION).release)

-----------------------------------------------------------------------------
(* Operations on the rates.  The tools take __user__ and never read it, and *)
(* they take no event emitter: nothing in them touches the update state.    *)

\* what a call leaves behind: the cache _fetch_rates wrote, and the history
AfterCall(op, fc, tc, am, ft, resp, f, body, ret) ==
  /\ constructed
  /\ cache' = f.cache
  /\ last_ok' = IF f.net /\ resp.kind = "ok"
                THEN [at |-> time_time, data |-> resp.data] ELSE last_ok
  /\ last_call' =
       [op |-> op, from_currency |-> fc, to_currency |-> tc, amount |-> am,
        filter_type |-> ft, at |-> time_time, net |-> f.net,
        fetched |-> f.net /\ resp.kind = "ok", fetch_raised |-> f.raised,
        data |-> f.data, prev_ok |-> last_ok, prev_cache |-> cache,
        notify_due |-> NotifyDue(update_state),
        body |-> body, ret |-> ret]
  /\ UNCHANGED <<valves, update_state, constructed, data_file, time_time,
                 datetime_now, emitted, last_request, last_notify>>

\* the answers the rate endpoint may give to a call made now: it is asked only
\* when the cache does not serve the call
Answers == IF CacheValid(cache, time_time) THEN {NotAsked} ELSE Responses

\* a call of _fetch_rates()
Call_fetch_rates ==
  \E resp \in Answers :
    LET f == FetchRates(cache, time_time, resp)
    IN  AfterCall("_fetch_rates", None, None, Zero, None, resp, f, Blank, Blank)

\* await convert_currency(from_currency, to_currency, amount)
convert_currency ==
  \E fc \in FromInputs, tc \in ToInputs, am \in Amounts, resp \in Answers :
    LET f == FetchRates(cache, time_time, resp)
        body == ConvertBody(f, fc, tc, am)
    IN  AfterCall("convert_currency", fc, tc, am, None, resp, f, body, CatchAll(body))

\* await get_crypto_price(crypto, currency): convert_currency with amount 1.0
get_crypto_price ==
  \E crypto \in CryptoInputs, currency \in CurrencyInputs, resp \in Answers :
    LET f == FetchRates(cache, time_time, resp)
        body == ConvertBody(f, crypto, currency, Rat(1, 1))
    IN  AfterCall("get_crypto_price", crypto, currency, Rat(1, 1), None, resp, f,
                  body, CatchAll(body))

\* await list_currencies(filter_type)
list_currencies ==
  \E ft \in FilterInputs, resp \in Answers :
    LET f == FetchRates(cache, time_time, resp)
        body == ListBody(f, ft)
    IN  AfterCall("list_currencies", None, None, Zero, ft, resp, f, body,
                  CatchAll(body))

\* time.time() moves on, by a second less than the cache duration or by all of it
Tick ==
  \E d \in {valves.CACHE_DURATION - 1, valves.CACHE_DURATION} :
    /\ time_time + d <= MaxTime
    /\ time_time' = time_time + d
    /\ UNCHANGED <<valves, cache, update_state, constructed, data_file, datetime_now,
                   emitted, last_ok, last_request, last_call, last_notify>>

-----------------------------------------------------------------------------
(* Operations on the update state                                          *)

\* the answers the release endpoint may give to a call made now by user: it is
\* asked only when a check is due
ReleaseAnswers(user) ==
  IF ShouldCheckForUpdates(update_state, valves.ENABLE_UPDATE_CHECK, user, datetime_now)
  THEN ReleaseResponses ELSE {[kind |-> "not_asked", tag_name |-> <<>>]}

\* await _check_and_notify_updates(user, event_emitter)
check_and_notify_updates ==
  \E user \in Users, has_emitter \in BOOLEAN :
  \E resp \in ReleaseAnswers(user) :
    LET r == CheckAndNotify(update_state, data_file, valves.ENABLE_UPDATE_CHECK, user,
                            has_emitter, resp, datetime_now)
    IN  /\ constructed
        /\ update_state' = r.state
        /\ data_file' = r.file
        /\ emitted' = emitted + r.messages
        /\ last_request' = IF r.requested THEN datetime_now ELSE last_request
        /\ last_notify' =
             [op |-> "notify", at |-> datetime_now, user |-> user,
              has_emitter |-> has_emitter, enabled |-> valves.ENABLE_UPDATE_CHECK,
              requested |-> r.requested, prev_request |-> last_request,
              prev_last_check |-> update_state.last_check,
              notify_due |-> NotifyDue(update_state),
              messages |-> r.messages, exc |-> r.exc]
        /\ UNCHANGED <<valves, cache, constructed, time_time, datetime_now, last_ok,
                       last_call>>

\* the process ends and the host constructs Tools again: __init__ loads the file
Restart ==
  LET l == LoadState(data_file)
  IN  /\ constructed
      /\ valves' = Valves(valves.ENABLE_UPDATE_CHECK)
      /\ cache' = EmptyCache
      /\ update_state' = l.state
      /\ constructed' = ~l.raised
      /\ last_ok' = NoOk
      /\ last_request' = -1
      /\ last_call' = NoCall
      /\ last_notify' = [NoNotify EXCEPT !.op = "init"]
      /\ UNCHANGED <<data_file, time_time, datetime_now, emitted>>

\* datetime.now() moves on, by an hour less than a day or by a day
TickHour ==
  \E d \in {CheckIntervalHours - 1, CheckIntervalHours} :
    /\ datetime_now + d <= MaxHour
    /\ datetime_now' = datetime_now + d
    /\ UNCHANGED <<valves, cache, update_state, constructed, data_file, time_time,
                   emitted, last_ok, last_request, last_call, last_notify>>

-----------------------------------------------------------------------------
(* Specifications                                                          *)

\* the cache: _fetch_rates called over time
NextCache ==
  \/ Call_fetch_rates
  \/ Tick

SpecCache == Init /\ [][NextCache]_vars

\* the tools, at one instant.  They start on an instance that has never fetched,
\* one whose cache is fresh and one whose cache has gone stale; the file is
\* absent or holds a newer version not yet notified.
InitTools ==
  /\ \E file \in {FileAbsent,
                  Document([DefaultState EXCEPT !.latest_version = Str(v0_2_0),
                                                !.latest_url = Str(url)])} :
        Construct(file, TRUE)
  /\ time_time = CACHE_DURATION
  /\ datetime_now = StartHour
  /\ \E c \in {EmptyCache, [data |-> TableA, timestamp |-> 0],
               [data |-> TableB, timestamp |-> 1]} :
        /\ cache = c
        /\ last_ok = IF c.data = NoData THEN NoOk
                     ELSE [at |-> c.timestamp, data |-> c.data]
  /\ emitted = 0
  /\ last_request = -1
  /\ last_call = NoCall
  /\ last_notify = NoNotify

NextTools ==
  \/ convert_currency
  \/ get_crypto_price
  \/ list_currencies

SpecTools == InitTools /\ [][NextTools]_vars

\* the update side: the notifier, restarts and the clock of the daily check
NextUpdates ==
  \/ check_and_notify_updates
  \/ Restart
  \/ TickHour

SpecUpdates == Init /\ [][NextUpdates]_vars

Next == NextCache \/ NextTools \/ NextUpdates

Spec == Init /\ [][Next]_vars

-----------------------------------------------------------------------------
(* Properties                                                              *)

ToolOps == {"convert_currency", "get_crypto_price", "list_currencies"}

\* the last call was a conversion that got a rate table and was given a text as
\* its source code
Converting ==
  /\ last_call.op \in {"convert_currency", "get_crypto_price"}
  /\ ~last_call.fetch_raised
  /\ last_call.from_currency.kind = "str"

\* the codes of the last conversion, upper-cased and trimmed; a missing or empty
\* target is the table's base
FromCode == Strip(Upper(last_call.from_currency.s))
ToCode ==
  IF last_call.to_currency.kind = "str" /\ last_call.to_currency.s # <<>>
  THEN Strip(Upper(last_call.to_currency.s))
  ELSE BaseOf(last_call.data)

\* code is the base of the table the last call used, or a key of its rates
Known(code) == code = BaseOf(last_call.data) \/ code \in Elems(last_call.data.order)

\* C1: every call of convert_currency, get_crypto_price and list_currencies ends
\* by returning a text, never by an exception leaving it, and every response
\* that is not a conversion or a listing (a failed fetch, an unknown code, a bad
\* filter, an error inside) starts with the cross mark.
C1_ToolsReturnText ==
  last_call.op \in ToolOps =>
    /\ last_call.ret.kind # "raise"
    /\ last_call.ret.kind \notin {"conversion", "list"} =>
         last_call.ret.marker = "cross_mark"
    /\ last_call.fetch_raised => last_call.ret.marker = "cross_mark"

\* a conversion in which the division raised, answered by an error text
C1_Witness ==
  /\ last_call.op = "convert_currency"
  /\ last_call.body.kind = "raise"
  /\ last_call.body.exc = "ZeroDivisionError"
  /\ last_call.ret.kind = "error"

C4_Identity ==
  (/\ last_call.op = "convert_currency"
   /\ Converting
   /\ FromCode = ToCode /\ Known(FromCode)
   /\ last_call.amount # Zero) =>
     /\ last_call.ret.kind = "conversion"
     /\ last_call.ret.result = last_call.amount

\* C5: a conversion goes ahead exactly when both codes, upper-cased and trimmed,
\* are the base or keys of rates; otherwise the response is the not-found error,
\* naming the first code that is not known and listing the first 20 keys of
\* rates in alphabetical order (all of them when there are fewer).
C5_Validation ==
  Converting =>
    LET r == last_call.ret
        keys == Elems(last_call.data.order)
        listed == Elems(r.available)
    IN  /\ (r.kind # "not_found") <=> (Known(FromCode) /\ Known(ToCode))
        /\ r.kind = "not_found" =>
             /\ r.code = IF ~Known(FromCode) THEN FromCode ELSE ToCode
             /\ Len(r.available) = (IF Cardinality(keys) < 20 THEN Cardinality(keys)
                                    ELSE 20)
             /\ listed \subseteq keys
             /\ \A i \in 1..(Len(r.available) - 1) :
                  StrLess(r.available[i], r.available[i + 1])
             /\ \A k \in keys \ listed : \A l \in listed : StrLess(l, k)

\* an unknown code against a table of more than 20 codes: 20 of them are listed
C5_Witness ==
  /\ Converting
  /\ last_call.ret.kind = "not_found"
  /\ Len(last_call.data.order) > 20
  /\ Len(last_call.ret.available) = 20

\* C6 (as claimed): converting an amount of 0 between two different known codes
\* gives a conversion response with a zero amount, not an error.
C6_ZeroAmount ==
  (/\ last_call.op = "convert_currency"
   /\ Converting
   /\ Known(FromCode) /\ Known(ToCode) /\ FromCode # ToCode
   /\ last_call.amount = Zero) =>
     /\ last_call.ret.kind = "conversion"
     /\ last_call.ret.amount = Zero

\* C7 (as claimed): a call of _check_and_notify_updates that makes no release
\* request, with an event emitter, a stored latest_version newer than
\* CURRENT_VERSION and has_shown_notification false, emits one message, sets
\* has_shown_notification and saves the state.
C7_NotifyOnce ==
  (/\ last_notify.op = "notify"
   /\ last_notify.notify_due
   /\ last_notify.has_emitter
   /\ ~last_notify.requested) =>
     /\ last_notify.messages = 1
     /\ last_notify.exc = ""
     /\ update_state.has_shown_notification
     /\ LoadState(data_file).state = update_state

\* C8 (as claimed): a tool invocation made while has_shown_notification is false
\* and the stored latest_version is newer than CURRENT_VERSION emits the update
\* message and marks it shown.
C8_NotifierAttached ==
  (last_call.op \in ToolOps /\ last_call.notify_due) =>
    /\ emitted > 0
    /\ update_state.has_shown_notification

WellFormed(file) ==
  /\ file.kind = "json_object"
  /\ file.keys = StateKeys
  /\ file.last_check.kind = "iso"

\* C10 (as claimed): after construction, before any call, __init__ has returned
\* and the state is complete: the defaults when the file is absent or is no
\* well-formed state document, the saved state otherwise.
C10_LoadNeverFails ==
  last_notify.op \in {"none", "init"} =>
    /\ constructed
    /\ update_state.keys = StateKeys
    /\ ~WellFormed(data_file) => update_state = DefaultState
    /\ WellFormed(data_file) => Document(update_state) = data_file

====
